---------------------------- MODULE Spec2Model ----------------------------
(***************************************************************************)
(* Star-schema load (main.py) and top-3 ranking report                     *)
(* (generate_report.py) of supermarket_sales_analysis.                     *)
(*                                                                         *)
(* A DataFrame or a database table is a record                             *)
(*     [columns |-> set of column names, rows |-> sequence of rows]        *)
(* where a row is a function from the column names to values.  The         *)
(* database (db/sales.db) is a function from the names of the tables that  *)
(* exist to their contents.  Money is held in thousandths of a currency    *)
(* unit (the CSV's Sales column has more than two decimals); ROUND(x, 2)   *)
(* turns it into hundredths.                                               *)
(***************************************************************************)
EXTENDS Integers, Sequences, FiniteSets, TLC

VARIABLES
    csv,          \* the input file read by main.py line 15
    store,        \* db/sales.db: table name -> table
    pc,           \* position of main.py
    previous,     \* how the process of main.py before the current one ended
    df,           \* main.py's df
    branch_df,    \* main.py's branch_df
    customer_df,  \* main.py's customer_df
    product_df,   \* main.py's product_df
    sales_data,   \* main.py's sales_data
    startStore,   \* the database as the current run of main.py found it
    report,       \* data/report.csv written by generate_report.py
    queried       \* the database as generate_report.py's query read it

vars == <<csv, store, pc, previous, df, branch_df, customer_df, product_df,
          sales_data, startStore, report, queried>>

-----------------------------------------------------------------------------
(* Bounds of the model *)

MaxRows == 2      \* longest enumerated input table

-----------------------------------------------------------------------------
(* Values *)

\* pandas' NaN in an integer key column after a left merge found no match;
\* SQL NULL once written.  Surrogate keys start at 1, so -1 is never a key.
NULL == -1

\* The header of "SuperMarket Analysis.csv".
FullHeader ==
    {"Invoice ID", "Branch", "City", "Customer type", "Gender", "Product line",
     "Unit price", "Quantity", "Tax 5%", "Sales", "Date", "Time", "Payment",
     "cogs", "gross margin percentage", "gross income", "Rating"}

\* str.lower().str.replace(' ', '_') on the column names of the header.
LowerUnderscore(h) ==
    CASE h = "Invoice ID" -> "invoice_id"
      [] h = "Branch" -> "branch"
      [] h = "City" -> "city"
      [] h = "Customer type" -> "customer_type"
      [] h = "Gender" -> "gender"
      [] h = "Product line" -> "product_line"
      [] h = "Unit price" -> "unit_price"
      [] h = "Quantity" -> "quantity"
      [] h = "Tax 5%" -> "tax_5%"
      [] h = "Sales" -> "sales"
      [] h = "Date" -> "date"
      [] h = "Time" -> "time"
      [] h = "Payment" -> "payment"
      [] h = "gross margin percentage" -> "gross_margin_percentage"
      [] h = "gross income" -> "gross_income"
      [] h = "Rating" -> "rating"
      [] OTHER -> h

\* df.rename(columns={'tax_5%': 'tax_amount', 'payment': 'payment_mode'})
RenameColumn(c) ==
    CASE c = "tax_5%" -> "tax_amount"
      [] c = "payment" -> "payment_mode"
      [] OTHER -> c

CanonicalName(h) == RenameColumn(LowerUnderscore(h))

\* strptime with '%m/%d/%Y' on the date texts of the model: the texts that
\* parse, and what they parse to.
ParseDate(d) ==
    CASE d = "1/5/2019" -> <<2019, 1, 5>>
      [] d = "3/8/2019" -> <<2019, 3, 8>>
      [] OTHER -> <<>>

\* strptime with '%I:%M:%S %p' on the time texts of the model.
ParseTime(t) ==
    CASE t = "1:08:00 PM" -> <<13, 8, 0>>
      [] t = "10:29:00 AM" -> <<10, 29, 0>>
      [] OTHER -> <<>>

\* pd.to_datetime(date + ' ' + time, format=...) of one row; <<>> when the
\* text does not match the format (to_datetime raises).
ToDatetime(d, t) ==
    IF ParseDate(d) = <<>> \/ ParseTime(t) = <<>> THEN <<>>
    ELSE ParseDate(d) \o ParseTime(t)

-----------------------------------------------------------------------------
(* DataFrame operations *)

EmptyFrame == [columns |-> {}, rows |-> <<>>]

\* df[[cols]]
Project(frame, cols) ==
    [columns |-> cols,
     rows |-> [i \in 1..Len(frame.rows) |-> [c \in cols |-> frame.rows[i][c]]]]

\* The frame as it is, no row dropped.
KeepDuplicates(frame) == frame

\* DataFrame.drop_duplicates(): keeps the first occurrence of each row, in
\* the order of the frame.
DropDuplicates(frame) ==
    LET s == frame.rows
        Keep[i \in 0..Len(s)] ==
            IF i = 0 THEN <<>>
            ELSE IF \E j \in 1..(i - 1) : s[j] = s[i] THEN Keep[i - 1]
                 ELSE Append(Keep[i - 1], s[i])
    IN  [columns |-> frame.columns, rows |-> Keep[Len(s)]]

\* range(0, n): keys numbered from 0.
SurrogateKeysFromZero(n) == [i \in 1..n |-> i - 1]

\* range(1, n + 1)
SurrogateKeys(n) == [i \in 1..n |-> i]

\* frame[name] = range(1, len(frame) + 1)
AssignKey(frame, name) ==
    LET keys == SurrogateKeys(Len(frame.rows))
    IN  [columns |-> frame.columns \cup {name},
         rows |-> [i \in 1..Len(frame.rows) |->
                     [c \in frame.columns \cup {name} |->
                        IF c = name THEN keys[i] ELSE frame.rows[i][c]]]]

\* One dimension: df[on].drop_duplicates(), the surrogate key column, and
\* the column selection.
Dimension(frame, on, key) ==
    Project(AssignKey(DropDuplicates(Project(frame, on)), key), {key} \cup on)

\* The columns of right put beside left row by row (a concat by position
\* instead of a join on the key).
MergeByPosition(left, right, on) ==
    LET extra == right.columns \ on
        cols == left.columns \cup extra
    IN  [columns |-> cols,
         rows |-> [i \in 1..Len(left.rows) |->
                     [c \in cols |->
                        IF c \in left.columns THEN left.rows[i][c]
                        ELSE IF i <= Len(right.rows) THEN right.rows[i][c]
                        ELSE NULL]]]

\* left.merge(right, on=on, how='left'): every left row, in order, once per
\* matching right row, or once with NaN in right's other columns when
\* nothing matches.
Merge(left, right, on) ==
    LET extra == right.columns \ on
        cols == left.columns \cup extra
        Matches(l) == SelectSeq(right.rows, LAMBDA r : \A c \in on : r[c] = l[c])
        Joined(l, r) == [c \in cols |-> IF c \in left.columns THEN l[c] ELSE r[c]]
        Unmatched(l) == [c \in cols |-> IF c \in left.columns THEN l[c] ELSE NULL]
        Out(l) == LET m == Matches(l)
                  IN  IF m = <<>> THEN <<Unmatched(l)>>
                      ELSE [k \in 1..Len(m) |-> Joined(l, m[k])]
        Acc[i \in 0..Len(left.rows)] ==
            IF i = 0 THEN <<>> ELSE Acc[i - 1] \o Out(left.rows[i])
    IN  [columns |-> cols, rows |-> Acc[Len(left.rows)]]

\* if_exists='append': the rows are added to the table when it exists.
ToSqlAppend(db, name, frame) ==
    [t \in DOMAIN db \cup {name} |->
        IF t # name THEN db[t]
        ELSE IF name \in DOMAIN db
             THEN [columns |-> frame.columns, rows |-> db[name].rows \o frame.rows]
             ELSE frame]

\* frame.to_sql(name, conn, if_exists='replace', index=False): the table is
\* dropped when it exists and created again with the frame's rows.
ToSql(db, name, frame) ==
    [t \in DOMAIN db \cup {name} |-> IF t = name THEN frame ELSE db[t]]

BranchKey == {"branch", "city"}
CustomerKey == {"customer_type", "gender"}
ProductKey == {"product_line", "unit_price"}

FactColumns ==
    {"invoice_id", "branch_id", "customer_id", "product_id", "quantity", "cogs",
     "tax_amount", "sales", "gross_income", "gross_margin_percentage",
     "invoice_datetime", "payment_mode", "rating"}

-----------------------------------------------------------------------------
(* Input files *)

\* One transaction of the file.
Transaction(id, branch, city, ctype, gender, line, price, sales, date) ==
    [h \in FullHeader |->
        CASE h = "Invoice ID" -> id
          [] h = "Branch" -> branch
          [] h = "City" -> city
          [] h = "Customer type" -> ctype
          [] h = "Gender" -> gender
          [] h = "Product line" -> line
          [] h = "Unit price" -> price
          [] h = "Quantity" -> 1
          [] h = "Tax 5%" -> 0
          [] h = "Sales" -> sales
          [] h = "Date" -> date
          [] h = "Time" -> "1:08:00 PM"
          [] h = "Payment" -> "Cash"
          [] h = "cogs" -> sales
          [] h = "gross margin percentage" -> 0
          [] h = "gross income" -> 0
          [] h = "Rating" -> 9]

File(header, txs) ==
    [header |-> header,
     rows |-> [i \in 1..Len(txs) |-> [h \in header |-> txs[i][h]]]]


\* The enumerated transactions: where, what, and who paid how much (in
\* thousandths: 1.002 and 1.004 are both 1.00 after rounding, their sum 2.006
\* is 2.01).
BranchCities == {<<"A", "Yangon">>, <<"A", "Mandalay">>, <<"B", "Yangon">>}
Products == {<<"X", 10>>, <<"Y", 20>>}
Purchases == {<<"Member", "Female", 1002>>, <<"Member", "Male", 1004>>}

RowChoices == BranchCities \X Products \X Purchases

\* The transaction of input row i with the choice ch.
ChosenTransaction(i, ch) ==
    Transaction(i, ch[1][1], ch[1][2], ch[3][1], ch[3][2], ch[2][1], ch[2][2],
                ch[3][3], "1/5/2019")

\* Every well-formed file of at most MaxRows transactions.
EnumeratedFiles ==
    UNION {{File(FullHeader, [i \in 1..n |-> ChosenTransaction(i, t[i])]) :
                t \in [1..n -> RowChoices]} : n \in 0..MaxRows}

\* A sale of `sales` thousandths of product line `line` in branch `branch`
\* to a customer of type Normal.
Sale(id, branch, city, gender, line, price, sales) ==
    Transaction(id, branch, city, "Normal", gender, line, price, sales, "3/8/2019")

\* Branch A sells X = 300, Y = 300, Z = 100, W = 50 and branch B sells
\* X = 200; X in A is sold in two cities and at two prices.
TiedTotalsFile ==
    File(FullHeader,
         <<Sale(1, "B", "Yangon", "Female", "X", 10, 200000),
           Sale(2, "A", "Yangon", "Male", "W", 10, 50000),
           Sale(3, "A", "Yangon", "Female", "X", 10, 100000),
           Sale(4, "A", "Mandalay", "Male", "X", 20, 200000),
           Sale(5, "A", "Yangon", "Female", "Y", 10, 300000),
           Sale(6, "A", "Yangon", "Male", "Z", 10, 100000)>>)

\* Branch A sells five product lines, two of them with totals that are equal
\* only after rounding to 2 decimals (X = 4.004, Y = 4.001), and branch B
\* sells two.
FourRanksFile ==
    File(FullHeader,
         <<Sale(1, "A", "Yangon", "Female", "X", 10, 4004),
           Sale(2, "A", "Yangon", "Female", "Y", 10, 4001),
           Sale(3, "A", "Yangon", "Male", "Z", 10, 3000),
           Sale(4, "A", "Yangon", "Male", "W", 10, 2000),
           Sale(5, "A", "Yangon", "Female", "V", 10, 1000),
           Sale(6, "B", "Yangon", "Male", "V", 10, 1000),
           Sale(7, "B", "Yangon", "Male", "W", 20, 1000)>>)

\* Files that do not have the expected shape: a column of the header is
\* missing, or a row's date is not month/day/year.
MissingColumns == {"Rating", "Invoice ID", "Branch", "Gender", "Date"}

MalformedFiles ==
    {File(FullHeader \ {h},
          <<Sale(1, "A", "Yangon", "Female", "X", 10, 1002),
            Sale(2, "B", "Yangon", "Male", "Y", 20, 1004)>>) :
        h \in MissingColumns}
    \cup
    {File(FullHeader,
          <<Sale(1, "A", "Yangon", "Female", "X", 10, 1002),
            Transaction(2, "B", "Yangon", "Member", "Male", "Y", 20, 1004, "2019-01-05")>>)}

InputFiles == EnumeratedFiles \cup {TiedTotalsFile, FourRanksFile} \cup MalformedFiles

-----------------------------------------------------------------------------
(* The database before the first run *)

NoTables == <<>>

\* What an earlier load left behind: three transactions of a branch that the
\* input files of the model do not mention.
StaleStore ==
    LET old == File(FullHeader,
                    <<Sale(901, "C", "Naypyitaw", "Female", "X", 30, 7000),
                      Sale(902, "C", "Naypyitaw", "Female", "U", 30, 8000),
                      Sale(903, "C", "Naypyitaw", "Female", "X", 30, 9000)>>)
        frame == [columns |-> {CanonicalName(h) : h \in old.header} \cup {"invoice_datetime"},
                  rows |-> [i \in 1..Len(old.rows) |->
                              [c \in {CanonicalName(h) : h \in old.header} \cup {"invoice_datetime"} |->
                                 IF c = "invoice_datetime" THEN <<2019, 3, 8, 13, 8, 0>>
                                 ELSE old.rows[i][CHOOSE h \in old.header : CanonicalName(h) = c]]]]
        b == Dimension(frame, BranchKey, "branch_id")
        c == Dimension(frame, CustomerKey, "customer_id")
        p == Dimension(frame, ProductKey, "product_id")
        m == Merge(Merge(Merge(frame, b, BranchKey), c, CustomerKey), p, ProductKey)
    IN  ToSql(ToSql(ToSql(ToSql(NoTables, "branch_dim", b), "customer_dim", c),
                    "product_dim", p), "sales_fact", Project(m, FactColumns))

InitialStores == {NoTables, StaleStore}

-----------------------------------------------------------------------------
(* main.py *)

NoReport == [written |-> FALSE, rows |-> <<>>]

Init ==
    /\ csv \in InputFiles
    /\ store \in InitialStores
    /\ pc = "idle"
    /\ previous = "none"
    /\ df = EmptyFrame
    /\ branch_df = EmptyFrame
    /\ customer_df = EmptyFrame
    /\ product_df = EmptyFrame
    /\ sales_data = EmptyFrame
    /\ startStore = store
    /\ report = NoReport
    /\ queried = NoTables

\* No process of main.py is running.
Stopped == pc \in {"idle", "done", "failed"}

\* Lines 15-20: read_csv and the renaming of the columns.
Renamed(file) ==
    LET cols == {CanonicalName(h) : h \in file.header}
    IN  [columns |-> cols,
         rows |-> [i \in 1..Len(file.rows) |->
                     [c \in cols |->
                        file.rows[i][CHOOSE h \in file.header : CanonicalName(h) = c]]]]

\* Line 23 raises: a column is missing or some row's text does not parse.
DatetimeFails(frame) ==
    IF {"date", "time"} \subseteq frame.columns
    THEN \E i \in 1..Len(frame.rows) :
            ToDatetime(frame.rows[i]["date"], frame.rows[i]["time"]) = <<>>
    ELSE TRUE

\* Line 23: df['invoice_datetime'] = pd.to_datetime(...)
WithDatetime(frame) ==
    [columns |-> frame.columns \cup {"invoice_datetime"},
     rows |-> [i \in 1..Len(frame.rows) |->
                 [c \in frame.columns \cup {"invoice_datetime"} |->
                    IF c = "invoice_datetime"
                    THEN ToDatetime(frame.rows[i]["date"], frame.rows[i]["time"])
                    ELSE frame.rows[i][c]]]]

\* A new process starts with nothing in memory and finds the database as
\* the previous processes left it.
StartProcess ==
    /\ Stopped
    /\ previous' = IF pc = "idle" THEN "none" ELSE pc
    /\ startStore' = store
    /\ branch_df' = EmptyFrame
    /\ customer_df' = EmptyFrame
    /\ product_df' = EmptyFrame
    /\ sales_data' = EmptyFrame

\* Lines 11-23.
Load ==
    /\ StartProcess
    /\ ~ DatetimeFails(Renamed(csv))
    /\ df' = WithDatetime(Renamed(csv))
    /\ pc' = "loaded"
    /\ UNCHANGED <<csv, store, report, queried>>

\* Lines 11-23, when line 23 raises.
LoadFails ==
    /\ StartProcess
    /\ DatetimeFails(Renamed(csv))
    /\ df' = Renamed(csv)
    /\ pc' = "failed"
    /\ UNCHANGED <<csv, store, report, queried>>

DimensionColumns == BranchKey \cup CustomerKey \cup ProductKey

\* Lines 25-45.
ExtractDimensions ==
    /\ pc = "loaded"
    /\ DimensionColumns \subseteq df.columns
    /\ branch_df' = Dimension(df, BranchKey, "branch_id")
    /\ customer_df' = Dimension(df, CustomerKey, "customer_id")
    /\ product_df' = Dimension(df, ProductKey, "product_id")
    /\ pc' = "extracted"
    /\ UNCHANGED <<csv, store, previous, df, sales_data, startStore, report, queried>>

\* Lines 25-45, when a natural-key column is missing (KeyError).
ExtractDimensionsFails ==
    /\ pc = "loaded"
    /\ ~ (DimensionColumns \subseteq df.columns)
    /\ pc' = "failed"
    /\ UNCHANGED <<csv, store, previous, df, branch_df, customer_df, product_df,
                   sales_data, startStore, report, queried>>

\* Line 48.
WriteBranchDim ==
    /\ pc = "extracted"
    /\ store' = ToSql(store, "branch_dim", branch_df)
    /\ pc' = "branch_written"
    /\ UNCHANGED <<csv, previous, df, branch_df, customer_df, product_df, sales_data,
                   startStore, report, queried>>

\* Line 51.
WriteCustomerDim ==
    /\ pc = "branch_written"
    /\ store' = ToSql(store, "customer_dim", customer_df)
    /\ pc' = "customer_written"
    /\ UNCHANGED <<csv, previous, df, branch_df, customer_df, product_df, sales_data,
                   startStore, report, queried>>

\* Line 54.
WriteProductDim ==
    /\ pc = "customer_written"
    /\ store' = ToSql(store, "product_dim", product_df)
    /\ pc' = "product_written"
    /\ UNCHANGED <<csv, previous, df, branch_df, customer_df, product_df, sales_data,
                   startStore, report, queried>>

\* Lines 57-59.
MergeKeys ==
    /\ pc = "product_written"
    /\ df' = Merge(Merge(Merge(df, branch_df, BranchKey), customer_df, CustomerKey),
                   product_df, ProductKey)
    /\ pc' = "merged"
    /\ UNCHANGED <<csv, store, previous, branch_df, customer_df, product_df, sales_data,
                   startStore, report, queried>>

\* Lines 62-63.
SelectFactColumns ==
    /\ pc = "merged"
    /\ FactColumns \subseteq df.columns
    /\ sales_data' = Project(df, FactColumns)
    /\ pc' = "selected"
    /\ UNCHANGED <<csv, store, previous, df, branch_df, customer_df, product_df,
                   startStore, report, queried>>

\* Lines 62-63, when a fact column is missing (KeyError).
SelectFactColumnsFails ==
    /\ pc = "merged"
    /\ ~ (FactColumns \subseteq df.columns)
    /\ pc' = "failed"
    /\ UNCHANGED <<csv, store, previous, df, branch_df, customer_df, product_df,
                   sales_data, startStore, report, queried>>

\* Line 66.
WriteSalesFact ==
    /\ pc = "selected"
    /\ store' = ToSql(store, "sales_fact", sales_data)
    /\ pc' = "fact_written"
    /\ UNCHANGED <<csv, previous, df, branch_df, customer_df, product_df, sales_data,
                   startStore, report, queried>>

\* Lines 69-70.
CommitClose ==
    /\ pc = "fact_written"
    /\ pc' = "done"
    /\ UNCHANGED <<csv, store, previous, df, branch_df, customer_df, product_df,
                   sales_data, startStore, report, queried>>

-----------------------------------------------------------------------------
(* generate_report.py *)

TopN == 3         \* WHERE rank <= 3

\* SQLite's BINARY collation on the branch names of the model.
Collation == <<"A", "B", "C">>

Position(name) == CHOOSE i \in 1..Len(Collation) : Collation[i] = name

\* The join with product_dim on the wrong key column of sales_fact.
JoinedRowsWrongKey(db) ==
    LET s == db["sales_fact"].rows
        b == db["branch_dim"].rows
        p == db["product_dim"].rows
    IN  {t \in (1..Len(s)) \X (1..Len(b)) \X (1..Len(p)) :
            /\ s[t[1]]["branch_id"] # NULL
            /\ b[t[2]]["branch_id"] = s[t[1]]["branch_id"]
            /\ p[t[3]]["product_id"] = s[t[1]]["branch_id"]}

\* FROM sales_fact s JOIN branch_dim b ON b.branch_id = s.branch_id
\*                   JOIN product_dim p ON p.product_id = s.product_id:
\* the joined rows, as triples of row numbers.  NULL equals nothing.
JoinedRows(db) ==
    LET s == db["sales_fact"].rows
        b == db["branch_dim"].rows
        p == db["product_dim"].rows
    IN  {t \in (1..Len(s)) \X (1..Len(b)) \X (1..Len(p)) :
            /\ s[t[1]]["branch_id"] # NULL
            /\ b[t[2]]["branch_id"] = s[t[1]]["branch_id"]
            /\ s[t[1]]["product_id"] # NULL
            /\ p[t[3]]["product_id"] = s[t[1]]["product_id"]}

\* SUM(s.sales) over a set of joined rows, in thousandths.
RECURSIVE SumSales(_, _)
SumSales(db, rows) ==
    IF rows = {} THEN 0
    ELSE LET t == CHOOSE x \in rows : TRUE
         IN  db["sales_fact"].rows[t[1]]["sales"] + SumSales(db, rows \ {t})

\* GROUP BY b.branch, p.product_line with SUM(s.sales): the exact sum of
\* every group <<branch, product_line>> that has a joined row.
Grouped(db) ==
    LET joined == JoinedRows(db)
        GroupOf(t) == <<db["branch_dim"].rows[t[2]]["branch"],
                        db["product_dim"].rows[t[3]]["product_line"]>>
    IN  [g \in {GroupOf(t) : t \in joined} |->
            SumSales(db, {t \in joined : GroupOf(t) = g})]

\* ROUND(x, 2) of a non-negative amount x in thousandths: the nearest
\* hundredth, halves away from zero; the result is in hundredths.  (SQLite
\* rounds a binary double; no sum of the model's amounts ends in a half
\* hundredth, where the two could differ.)
Round2(x) == (x + 5) \div 10

\* Ordering by the exact sum, SUM(s.sales).
OrderValueExact(exact) == exact

\* The value the window orders by: ROUND(SUM(s.sales), 2).
OrderValue(exact) == Round2(exact)

\* The rows of one partition sorted by the window's ORDER BY ... DESC.
RECURSIVE SortDesc(_)
SortDesc(rows) ==
    IF rows = {} THEN <<>>
    ELSE LET top == CHOOSE r \in rows : \A q \in rows : q.order_value <= r.order_value
         IN  <<top>> \o SortDesc(rows \ {top})

\* RANK(): a row that differs from the one before takes its row number, so
\* ties leave gaps.
GappedRank(sorted) ==
    LET R[i \in 1..Len(sorted)] ==
            IF i = 1 THEN 1
            ELSE IF sorted[i].order_value = sorted[i - 1].order_value THEN R[i - 1]
                 ELSE i
    IN  R

\* DENSE_RANK() over a sorted partition: the rank of row i is one more than
\* the rank of row i - 1 when their values differ, and the same otherwise.
DenseRank(sorted) ==
    LET R[i \in 1..Len(sorted)] ==
            IF i = 1 THEN 1
            ELSE IF sorted[i].order_value = sorted[i - 1].order_value THEN R[i - 1]
                 ELSE R[i - 1] + 1
    IN  R

\* The common table expression: one row per group with its rounded total
\* and its rank within the branch.
CTE(db) ==
    LET sums == Grouped(db)
        rows == {[branch |-> g[1], product_line |-> g[2],
                  total_sales |-> Round2(sums[g]),
                  order_value |-> OrderValue(sums[g])] : g \in DOMAIN sums}
        Ranked(b) ==
            LET partition == SortDesc({r \in rows : r.branch = b})
                rank == DenseRank(partition)
            IN  {[branch |-> b,
                  product_line |-> partition[i].product_line,
                  total_sales |-> partition[i].total_sales,
                  rank |-> rank[i]] : i \in 1..Len(partition)}
    IN  UNION {Ranked(b) : b \in {g[1] : g \in DOMAIN sums}}

\* WHERE rank < 3
RetainedBelow(row) == row.rank < TopN

\* WHERE rank <= 3
Retained(row) == row.rank <= TopN

\* ORDER BY branch, rank
BeforeAscending(r, q) ==
    \/ Position(r.branch) < Position(q.branch)
    \/ r.branch = q.branch /\ r.rank < q.rank

\* ORDER BY branch, rank DESC: row r must come before row q.
Before(r, q) ==
    \/ Position(r.branch) < Position(q.branch)
    \/ r.branch = q.branch /\ r.rank > q.rank

\* Every sequence of the rows that the ORDER BY allows (it leaves the order
\* of rows with the same branch and rank open).
RECURSIVE Orderings(_)
Orderings(rows) ==
    IF rows = {} THEN {<<>>}
    ELSE UNION {{<<r>> \o rest : rest \in Orderings(rows \ {r})} :
                    r \in {m \in rows : \A q \in rows : ~ Before(q, m)}}

\* SELECT branch, product_line, total_sales
Selected(r) ==
    [branch |-> r.branch, product_line |-> r.product_line, total_sales |-> r.total_sales]

QueryResults(db) ==
    {[i \in 1..Len(o) |-> Selected(o[i])] :
        o \in Orderings({r \in CTE(db) : Retained(r)})}

QueryTables == {"sales_fact", "branch_dim", "product_dim"}

\* Lines 5-36: the query and the export of its result.  When a table of the
\* query does not exist line 9 raises and nothing is written.
GenerateReport ==
    /\ Stopped
    /\ QueryTables \subseteq DOMAIN store
    /\ \E rows \in QueryResults(store) :
          report' = [written |-> TRUE, rows |-> rows]
    /\ queried' = store
    /\ UNCHANGED <<csv, store, pc, previous, df, branch_df, customer_df, product_df,
                   sales_data, startStore>>

Next ==
    \/ Load
    \/ LoadFails
    \/ ExtractDimensions
    \/ ExtractDimensionsFails
    \/ WriteBranchDim
    \/ WriteCustomerDim
    \/ WriteProductDim
    \/ MergeKeys
    \/ SelectFactColumns
    \/ SelectFactColumnsFails
    \/ WriteSalesFact
    \/ CommitClose
    \/ GenerateReport

Spec == Init /\ [][Next]_vars

-----------------------------------------------------------------------------
(* Properties of the load *)

\* The run of main.py has built its dimension tables.
DimensionsBuilt == pc \in {"extracted", "branch_written", "customer_written",
                           "product_written", "merged", "selected", "fact_written", "done"}

\* The natural-key combinations of columns A, B present in the input file.
Present(A, B) == {<<csv.rows[i][A], csv.rows[i][B]>> : i \in 1..Len(csv.rows)}

\* dim has one row per combination of the input's columns A, B (its own
\* columns a, b), no combination twice, and keys 1..k.
DimensionOf(dim, key, a, b, A, B) ==
    LET k == Cardinality(Present(A, B))
        n == Len(dim.rows)
    IN  /\ n = k
        /\ {<<dim.rows[i][a], dim.rows[i][b]>> : i \in 1..n} = Present(A, B)
        /\ \A i, j \in 1..n :
              (dim.rows[i][a] = dim.rows[j][a] /\ dim.rows[i][b] = dim.rows[j][b]) => i = j
        /\ {dim.rows[i][key] : i \in 1..n} = 1..k

FactWritten == pc \in {"fact_written", "done"}

\* C2: sales_fact as written by the run has as many rows as the input, the
\* i-th of them for the i-th transaction.
C2_FactCardinality ==
    FactWritten =>
        LET fact == store["sales_fact"].rows
        IN  /\ Len(fact) = Len(csv.rows)
            /\ \A i \in 1..Len(fact) : fact[i]["invoice_id"] = csv.rows[i]["Invoice ID"]

\* The fact table was written for an input in which two transactions share
\* the natural key of every dimension.
C2_Witness ==
    /\ FactWritten
    /\ \E i, j \in 1..Len(csv.rows) :
          /\ i # j
          /\ \A h \in {"Branch", "City", "Customer type", "Gender", "Product line",
                       "Unit price"} : csv.rows[i][h] = csv.rows[j][h]

\* The foreign key fk of fact row f is not NULL and every row of the
\* persisted dimension with that key has the natural key (a, b) of the raw
\* transaction (A, B), and there is such a row.
Resolves(f, raw, table, fk, a, b, A, B) ==
    LET dim == store[table].rows
        hit == {i \in 1..Len(dim) : dim[i][fk] = f[fk]}
    IN  /\ f[fk] # NULL
        /\ hit # {}
        /\ \A i \in hit : dim[i][a] = raw[A] /\ dim[i][b] = raw[B]

\* C3: after a completed run every foreign key of every fact row is non-null
\* and names a row of the persisted dimension with the natural key of the
\* transaction the fact row was built from.
C3_ForeignKeysResolve ==
    pc = "done" =>
        \A n \in 1..Len(store["sales_fact"].rows) :
            LET f == store["sales_fact"].rows[n]
                from == {i \in 1..Len(csv.rows) : csv.rows[i]["Invoice ID"] = f["invoice_id"]}
            IN  /\ from # {}
                /\ \A i \in from :
                      /\ Resolves(f, csv.rows[i], "branch_dim", "branch_id",
                                  "branch", "city", "Branch", "City")
                      /\ Resolves(f, csv.rows[i], "customer_dim", "customer_id",
                                  "customer_type", "gender", "Customer type", "Gender")
                      /\ Resolves(f, csv.rows[i], "product_dim", "product_id",
                                  "product_line", "unit_price", "Product line", "Unit price")

\* A completed run whose fact rows point at different rows of every
\* dimension, the later transaction at the first dimension row.
C3_Witness ==
    /\ pc = "done"
    /\ \E i, j \in 1..Len(store["sales_fact"].rows) :
          LET f == store["sales_fact"].rows[i]
              g == store["sales_fact"].rows[j]
          IN  /\ i < j
              /\ f["branch_id"] > g["branch_id"]
              /\ f["customer_id"] # g["customer_id"]
              /\ f["product_id"] # g["product_id"]

TableNames == {"branch_dim", "customer_dim", "product_dim", "sales_fact"}

\* C4: after a completed run the four tables are exactly the frames the run
\* derived from its input, whatever the database held before, and a second
\* completed run on the unchanged file leaves the database as it found it.
C4_FullRefresh ==
    pc = "done" =>
        /\ DOMAIN store = TableNames
        /\ store["branch_dim"] = branch_df
        /\ store["customer_dim"] = customer_df
        /\ store["product_dim"] = product_df
        /\ store["sales_fact"] = sales_data
        /\ \A i \in 1..Len(store["sales_fact"].rows) :
              \E j \in 1..Len(csv.rows) :
                  store["sales_fact"].rows[i]["invoice_id"] = csv.rows[j]["Invoice ID"]
        /\ previous = "done" => store = startStore

\* A run completed on a database whose four tables already held rows.
C4_Witness ==
    /\ pc = "done"
    /\ DOMAIN startStore = TableNames
    /\ \A t \in TableNames : Len(startStore[t].rows) > 0
    /\ Len(csv.rows) > 0

\* C9 (as claimed): a run that fails on the shape of its input has replaced
\* none of the four tables.
C9_AbortsBeforeAnyWrite == pc = "failed" => store = startStore

-----------------------------------------------------------------------------
(* Properties of the report *)

\* Dense rank by counting, given the exact sums of the groups: one more than
\* the number of distinct rounded totals of the same branch that are greater.
CountedRank(sums, g) ==
    1 + Cardinality({Round2(sums[h]) : h \in {x \in DOMAIN sums :
                        x[1] = g[1] /\ Round2(sums[x]) > Round2(sums[g])}})

\* The places of group g in the report.
Places(g) ==
    {i \in 1..Len(report.rows) :
        report.rows[i].branch = g[1] /\ report.rows[i].product_line = g[2]}

\* The group of row i of the report.
GroupAt(i) == <<report.rows[i].branch, report.rows[i].product_line>>

\* C5: the report has a row for a group exactly when the group's dense rank
\* within its branch, by rounded total descending, is at most 3; it has one
\* row for such a group and no other rows.
C5_ReportIsDenseTopThree ==
    report.written =>
        LET sums == Grouped(queried)
        IN  /\ \A g \in DOMAIN sums :
                  IF CountedRank(sums, g) <= 3
                  THEN /\ Cardinality(Places(g)) = 1
                       /\ \A i \in Places(g) : report.rows[i].total_sales = Round2(sums[g])
                  ELSE Places(g) = {}
            /\ \A i \in 1..Len(report.rows) : GroupAt(i) \in DOMAIN sums

\* A report with more than 3 rows for one branch (a tie), a group left out,
\* and a branch with fewer than 3 product lines, all of them reported.
C5_Witness ==
    /\ report.written
    /\ LET groups == DOMAIN Grouped(queried)
       IN  /\ \E b \in {g[1] : g \in groups} :
                 Cardinality({i \in 1..Len(report.rows) : report.rows[i].branch = b}) > 3
           /\ \E g \in groups : Places(g) = {}
           /\ \E b \in {g[1] : g \in groups} :
                 /\ Cardinality({g \in groups : g[1] = b}) < 3
                 /\ \A g \in groups : g[1] = b => Places(g) # {}

\* The totals of the example: A: X = 300, Y = 300, Z = 100, W = 50; B: X = 200.
ExampleTotals ==
    {<<"A", "X", 30000>>, <<"A", "Y", 30000>>, <<"A", "Z", 10000>>, <<"A", "W", 5000>>,
     <<"B", "X", 20000>>}

ExampleQueried ==
    /\ report.written
    /\ LET sums == Grouped(queried)
       IN  {<<g[1], g[2], Round2(sums[g])>> : g \in DOMAIN sums} = ExampleTotals

ReportRow(b, p, t) == [branch |-> b, product_line |-> p, total_sales |-> t]

\* C6 (as claimed): on the example the report holds for A exactly X, Y and
\* Z, with W left out and Z before X and Y, and for B the row X.
C6_ExampleAsClaimed ==
    ExampleQueried =>
        /\ {report.rows[i] : i \in 1..Len(report.rows)} =
              {ReportRow("A", "X", 30000), ReportRow("A", "Y", 30000),
               ReportRow("A", "Z", 10000), ReportRow("B", "X", 20000)}
        /\ Len(report.rows) = 4
        /\ report.rows[1] = ReportRow("A", "Z", 10000)
        /\ report.rows[4] = ReportRow("B", "X", 20000)

\* C6 (amended): on the example the report holds for A the rows W (50, rank
\* 3), Z (100, rank 2), X and Y (300, rank 1), W first, then Z, then X and Y
\* in either order, and for B the single row X (200), last.
C6_ExampleWithRankThree ==
    ExampleQueried =>
        /\ Len(report.rows) = 5
        /\ report.rows[1] = ReportRow("A", "W", 5000)
        /\ report.rows[2] = ReportRow("A", "Z", 10000)
        /\ {report.rows[3], report.rows[4]} =
              {ReportRow("A", "X", 30000), ReportRow("A", "Y", 30000)}
        /\ report.rows[5] = ReportRow("B", "X", 20000)

\* A report was written from a database with the totals of the example.
C6_Witness == ExampleQueried

\* C7: the report is ordered by branch ascending and, within a branch, by
\* rank descending: of two rows of one branch the one with the larger rank,
\* which is the smaller total, comes first.
C7_OrderedByBranchThenRankDescending ==
    report.written =>
        LET sums == Grouped(queried)
        IN  \A i, j \in 1..Len(report.rows) :
                i < j =>
                    /\ Position(report.rows[i].branch) <= Position(report.rows[j].branch)
                    /\ report.rows[i].branch = report.rows[j].branch =>
                          /\ report.rows[i].total_sales <= report.rows[j].total_sales
                          /\ CountedRank(sums, GroupAt(i)) >= CountedRank(sums, GroupAt(j))

\* A report with the ranks 3, 2, 1 of one branch followed by another branch.
C7_Witness ==
    /\ report.written
    /\ \E i, j, k, l \in 1..Len(report.rows) :
          /\ i < j /\ j < k /\ k < l
          /\ report.rows[i].branch = report.rows[j].branch
          /\ report.rows[j].branch = report.rows[k].branch
          /\ report.rows[i].total_sales < report.rows[j].total_sales
          /\ report.rows[j].total_sales < report.rows[k].total_sales
          /\ report.rows[k].branch # report.rows[l].branch

\* C8: ranking compares rounded totals: two groups of one branch whose exact
\* sums are equal after rounding to 2 decimals have the same rank in the
\* query, so both or neither are reported, and the reported total is the
\* rounded one.
C8_RankByRoundedTotal ==
    report.written =>
        LET sums == Grouped(queried)
            cte == CTE(queried)
            QueryRank(g) ==
                (CHOOSE r \in cte : r.branch = g[1] /\ r.product_line = g[2]).rank
        IN  /\ \A g, h \in DOMAIN sums :
                  (g[1] = h[1] /\ Round2(sums[g]) = Round2(sums[h])) =>
                      /\ QueryRank(g) = QueryRank(h)
                      /\ (Places(g) = {}) = (Places(h) = {})
            /\ \A g \in DOMAIN sums :
                  \A i \in Places(g) : report.rows[i].total_sales = Round2(sums[g])

\* A report with two groups of one branch whose exact sums differ and whose
\* rounded totals are equal.
C8_Witness ==
    /\ report.written
    /\ LET sums == Grouped(queried)
       IN  \E g, h \in DOMAIN sums :
              /\ g[1] = h[1]
              /\ sums[g] # sums[h]
              /\ Round2(sums[g]) = Round2(sums[h])
              /\ Places(g) # {} /\ Places(h) # {}

\* The sum of Sales over the transactions of the input file with branch b
\* and product line p, in thousandths.
RawSum(b, p) ==
    LET S[i \in 0..Len(csv.rows)] ==
            IF i = 0 THEN 0
            ELSE IF csv.rows[i]["Branch"] = b /\ csv.rows[i]["Product line"] = p
                 THEN S[i - 1] + csv.rows[i]["Sales"]
                 ELSE S[i - 1]
    IN  S[Len(csv.rows)]

\* C10: after a completed run the query's groups are the (branch, product
\* line) pairs of the input and the total of each is the rounded sum of
\* Sales over the input transactions of that pair; a report read from that
\* database shows these totals.
C10_TotalsMatchInput ==
    pc = "done" =>
        /\ DOMAIN Grouped(store) = Present("Branch", "Product line")
        /\ \A r \in CTE(store) :
              r.total_sales = Round2(RawSum(r.branch, r.product_line))
        /\ (report.written /\ queried = store) =>
              \A i \in 1..Len(report.rows) :
                  report.rows[i].total_sales =
                      Round2(RawSum(report.rows[i].branch, report.rows[i].product_line))

\* A report read after a completed run on an input where one branch name
\* occurs with two cities and one product line with two unit prices, in the
\* same group.
C10_Witness ==
    /\ pc = "done"
    /\ report.written /\ queried = store
    /\ \E i, j \in 1..Len(csv.rows) :
          /\ csv.rows[i]["Branch"] = csv.rows[j]["Branch"]
          /\ csv.rows[i]["Product line"] = csv.rows[j]["Product line"]
          /\ csv.rows[i]["City"] # csv.rows[j]["City"]
          /\ csv.rows[i]["Unit price"] # csv.rows[j]["Unit price"]
          /\ Places(<<csv.rows[i]["Branch"], csv.rows[i]["Product line"]>>) # {}

=============================================================================
